---- MODULE Spec2Model ----
(***************************************************************************)
(* A model of redislock.go: a lock kept in one Redis key.  Every handle    *)
(* (RedisLock) carries a random token (id) and a lease length (seconds);   *)
(* Acquire and Release each send one Lua script to the store, which runs   *)
(* it atomically; TryLockTimeout polls Acquire every 70 ms until a         *)
(* deadline.  Time is counted in milliseconds; the key's remaining         *)
(* time-to-live is kept the way Redis reports it (PTTL), and a key whose   *)
(* time-to-live reaches 0 is gone.                                         *)
(***************************************************************************)
EXTENDS Integers, Sequences, FiniteSets, TLC

\* ---------------------------------------------------------------- constants

tolerance == 500

millisPerSecond == 1000

\* New() sets seconds to 3.
DefaultSeconds == 3

\* time.Sleep(70 * time.Millisecond) in TryLockTimeout.
PollMillis == 70

\* ------------------------------------------------------------------- bounds

\* The elapsed time of a TryLockTimeout call is counted up to this value and
\* stays there: it is above every timeout of TimeoutInputs.
MaxElapsed == 1500

\* The number of TryLockTimeout calls made where the wrapper is watched at
\* the scale of its poll interval (SpecPoll).
MaxCalls == 2

\* The steps time advances in: 500 ms, of which every lease
\* (seconds*1000 + 500) is a multiple.
TickSteps == {tolerance}

\* The handles of the model, all on the same key, and the tokens randomStr
\* gave them at construction.
Handles == {"h1", "h2"}

Tokens == {"tA", "tB"}

TokenOf == [h \in Handles |-> IF h = "h1" THEN "tA" ELSE "tB"]

\* The arguments SetExpire is called with.
SecondsInputs == {0, DefaultSeconds}

\* The arguments TryLockTimeout is called with, in milliseconds.
TimeoutInputs == {0, 1000}

\* How a round trip to the store can end: the reply arrives, the request is
\* lost before the script ran, the reply is lost after the script ran.
NetOutcomes == {"ok", "reqLost", "replyLost"}

\* ------------------------------------------------------------------- values

\* The value of a key that does not exist (GET replies nil, Lua false).
Absent == "absent"

\* Replies of the store as the client hands them to the caller (resp).
NilReply == [type |-> "nil", s |-> "", n |-> 0]

StatusReply(str) == [type |-> "string", s |-> str, n |-> 0]

IntReply(i) == [type |-> "int", s |-> "", n |-> i]

\* Errors: nil, red.Nil, a communication failure, the timeout of
\* TryLockTimeout (which carries the timeout it was called with).
NoErr == [kind |-> "nil", t |-> 0]

RedisNilErr == [kind |-> "redis.Nil", t |-> 0]

CommErr == [kind |-> "comm", t |-> 0]

TimeoutErr(t) == [kind |-> "timeout", t |-> t]

VARIABLES
    id,         \* id[h]: the handle's token (rl.id)
    seconds,    \* seconds[h]: the handle's lease length (rl.seconds)
    kv,         \* the key in the store: its value and remaining time-to-live
    frame,      \* frame[h]: where the handle's caller is, and its locals
    ev,         \* the call that returned in the last step, and its result
    hist,       \* hist[h]: what became of the handle's last hold of the key
    grant,      \* the lease the key is under: whose, how long, how old
    scen        \* the driver of the two-handle scenario

vars == <<id, seconds, kv, frame, ev, hist, grant, scen>>

\* -------------------------------------------------------------------- store

FreeKey == [val |-> Absent, pttl |-> 0]

RedisGet(k) == k.val

\* A SET with KEEPTTL: a key that exists keeps the time-to-live it has.
RedisSetPX_KeepTTL(k, value, px) ==
    [kv |-> [val |-> value, pttl |-> IF k.val = Absent THEN px ELSE k.pttl],
     reply |-> StatusReply("OK")]

\* SET key value PX px
RedisSetPX(k, value, px) == [kv |-> [val |-> value, pttl |-> px], reply |-> StatusReply("OK")]

\* A SET that lost its NX: it overwrites a key that exists.
RedisSetNXPX_NoNX(k, value, px) == RedisSetPX(k, value, px)

\* SET key value NX PX px: only when the key does not exist, else a nil reply.
RedisSetNXPX(k, value, px) ==
    IF k.val = Absent
    THEN [kv |-> [val |-> value, pttl |-> px], reply |-> StatusReply("OK")]
    ELSE [kv |-> k, reply |-> NilReply]

\* A delayed delete: the key is left to run out after the tolerance.
RedisDel_Delayed(k) ==
    IF k.val = Absent
    THEN [kv |-> k, reply |-> IntReply(0)]
    ELSE [kv |-> [k EXCEPT !.pttl = tolerance], reply |-> IntReply(1)]

\* DEL key: the number of keys removed.
RedisDel(k) ==
    IF k.val = Absent
    THEN [kv |-> k, reply |-> IntReply(0)]
    ELSE [kv |-> FreeKey, reply |-> IntReply(1)]

\* An acquire script without the extension branch: SET NX alone.
lockCommand_NoExtend(k, token, px) == RedisSetNXPX(k, token, px)

\* The script of Acquire, run atomically: KEYS[1] is the key, ARGV[1] the
\* token, ARGV[2] the time-to-live in milliseconds.
lockCommand(k, token, px) ==
    IF RedisGet(k) = token
    THEN [kv |-> RedisSetPX(k, token, px).kv, reply |-> StatusReply("OK")]
    ELSE RedisSetNXPX(k, token, px)

\* A release script without the guard: DEL whatever the value.
delCommand_NoGuard(k, token) == RedisDel(k)

\* The script of Release, run atomically.
delCommand(k, token) ==
    IF RedisGet(k) = token
    THEN RedisDel(k)
    ELSE [kv |-> k, reply |-> IntReply(0)]

\* The store's clock moves on by d milliseconds: the key's time-to-live runs
\* down, and at 0 the key is gone.
Expire(k, d) ==
    IF k.pttl > d THEN [k EXCEPT !.pttl = k.pttl - d] ELSE FreeKey

\* ------------------------------------------------------------------- client

\* redis.Eval(...).Result(): a nil reply comes back as the error red.Nil, a
\* failed round trip as a communication error.
EvalResult(reply, net) ==
    IF net # "ok" THEN [resp |-> NilReply, err |-> CommErr]
    ELSE IF reply.type = "nil" THEN [resp |-> NilReply, err |-> RedisNilErr]
    ELSE [resp |-> reply, err |-> NoErr]

\* What the store does with a script sent over a round trip ending in net.
RoundTrip(out, k, net) ==
    IF net = "reqLost" THEN [kv |-> k, reply |-> NilReply] ELSE out

\* A lease with the tolerance added before the conversion to milliseconds.
LeaseMillis_ToleranceInSeconds(secs) == (secs + tolerance) * millisPerSecond

\* The lease Acquire asks for: int(seconds)*millisPerSecond + tolerance.
LeaseMillis(secs) == secs * millisPerSecond + tolerance

\* A mapping that takes any string reply for "OK".
AcquireResult_AnyString(resp, err) ==
    IF err = RedisNilErr THEN [ok |-> FALSE, err |-> NoErr]
    ELSE IF err # NoErr THEN [ok |-> FALSE, err |-> err]
    ELSE IF resp.type = "nil" THEN [ok |-> FALSE, err |-> NoErr]
    ELSE IF resp.type = "string" THEN [ok |-> TRUE, err |-> NoErr]
    ELSE [ok |-> FALSE, err |-> NoErr]

\* Acquire's mapping of (resp, err) to its result.
AcquireResult(resp, err) ==
    IF err = RedisNilErr THEN [ok |-> FALSE, err |-> NoErr]
    ELSE IF err # NoErr THEN [ok |-> FALSE, err |-> err]
    ELSE IF resp.type = "nil" THEN [ok |-> FALSE, err |-> NoErr]
    ELSE IF resp.type = "string" /\ resp.s = "OK" THEN [ok |-> TRUE, err |-> NoErr]
    ELSE [ok |-> FALSE, err |-> NoErr]

\* A mapping that takes any integer reply for a deletion.
ReleaseResult_AnyInt(resp, err) ==
    IF err # NoErr THEN [ok |-> FALSE, err |-> err]
    ELSE IF resp.type # "int" THEN [ok |-> FALSE, err |-> NoErr]
    ELSE [ok |-> TRUE, err |-> NoErr]

\* Release's mapping of (resp, err) to its result.
ReleaseResult(resp, err) ==
    IF err # NoErr THEN [ok |-> FALSE, err |-> err]
    ELSE IF resp.type # "int" THEN [ok |-> FALSE, err |-> NoErr]
    ELSE [ok |-> (resp.n = 1), err |-> NoErr]

\* uint32(seconds): the low 32 bits, which is n itself for 0 <= n < 2^31,
\* the arguments the model calls SetExpire with.
ToUint32(n) == n

\* ------------------------------------------------------------------ handles

\* A handle's caller: pc is "idle" (no call running), "eval" (in Acquire,
\* seconds loaded, the script on its way) or "sleep" (in TryLockTimeout's
\* time.Sleep); inTry says that TryLockTimeout is the caller of Acquire.
IdleFrame ==
    [pc |-> "idle", inTry |-> FALSE, secs |-> 0, timeout |-> 0, elapsed |-> 0,
     sleepLeft |-> 0]

NoResult == [resp |-> NilReply, err |-> NoErr]

\* A return of op by handle h with the result res = (ok, err).  The other
\* fields say how it came about: net, how the round trip ended; path, the
\* branch of the script that ran ("then", "else", "none"); got, the (resp,
\* err) the client handed back; prev, hist[h] before the call returned;
\* wrap, what TryLockTimeout did with an Acquire it had called ("sleep",
\* "true" for its return of (true, nil)); at, the time since TryLockTimeout
\* was called.
Event(h, op, res) ==
    [h |-> h, op |-> op, ok |-> res.ok, err |-> res.err, net |-> "none", path |-> "none",
     got |-> NoResult, prev |-> "none", wrap |-> "none", at |-> 0]

NoEvent == Event("none", "none", [ok |-> FALSE, err |-> NoErr])

ScriptPath(k, token, net) ==
    IF net = "reqLost" THEN "none" ELSE IF RedisGet(k) = token THEN "then" ELSE "else"

Min(a, b) == IF a < b THEN a ELSE b

Max(a, b) == IF a > b THEN a ELSE b

\* ------------------------------------------------------------------ history
\* hist and grant record what happened; no action reads them.

\* hist[h] is "never" (its token was never stored), "stored" (its Acquire
\* script stored its token, the reply was lost, the key has not ended
\* since), "granted" (an Acquire of h returned true and the key has not
\* ended since), "released" (its Release deleted the key), "expired" (the
\* key it held ran out), "stolen" (the key it held was deleted by another).
Holding == {"stored", "granted"}

HistAfterSet(h, delivered) ==
    [hist EXCEPT ![h] = IF delivered \/ @ = "granted" THEN "granted" ELSE "stored"]

HistAfterDel(h) ==
    [g \in Handles |-> IF g = h THEN "released"
                       ELSE IF hist[g] \in Holding THEN "stolen" ELSE hist[g]]

HistAfterExpiry ==
    [g \in Handles |-> IF hist[g] \in Holding THEN "expired" ELSE hist[g]]

\* grant, while the key exists: the handle whose Acquire script last set the
\* key's time-to-live, the seconds it had read, and the time since.
NoGrant == [h |-> "none", secs |-> 0, age |-> 0]

GrantAfterSet(h, secs) == [h |-> h, secs |-> secs, age |-> 0]

GrantAfterTick(k, d) ==
    IF k.val = Absent THEN NoGrant ELSE [grant EXCEPT !.age = @ + d]

\* scen is the state of the two-handle scenario's driver (see Scenario
\* below); the program's own steps leave it alone.
NoScenario == [a |-> "none", busy |-> FALSE, results |-> <<>>]

Init ==
    /\ id = TokenOf
    /\ seconds = [h \in Handles |-> DefaultSeconds]
    /\ kv = FreeKey
    /\ frame = [h \in Handles |-> IdleFrame]
    /\ ev = NoEvent
    /\ hist = [h \in Handles |-> "never"]
    /\ grant = NoGrant
    /\ scen = NoScenario

\* An Acquire that takes the lease length of New() instead of loading it.
AcquireLoad_Default(h, f) == [f EXCEPT !.pc = "eval", !.secs = DefaultSeconds]

\* Acquire, up to the script being sent: seconds := atomic.LoadUint32(&rl.seconds).
AcquireLoad(h, f) == [f EXCEPT !.pc = "eval", !.secs = seconds[h]]

AcquireCall(h) ==
    /\ frame[h].pc = "idle"
    /\ frame' = [frame EXCEPT ![h] = AcquireLoad(h, IdleFrame)]
    /\ ev' = NoEvent
    /\ UNCHANGED <<id, seconds, kv, hist, grant>>

\* A TryLockTimeout that returns Acquire's failure instead of sleeping.
TryAfter_NoRetry(f, res) == IdleFrame

\* A TryLockTimeout that gives up on an error of Acquire and returns it.
TryAfter_ReturnOnError(f, res) ==
    IF res.err # NoErr THEN IdleFrame
    ELSE IF ~res.ok THEN [f EXCEPT !.pc = "sleep", !.secs = 0, !.sleepLeft = PollMillis]
    ELSE IdleFrame

\* TryLockTimeout's use of Acquire's result: success returns (true, nil),
\* anything else goes to time.Sleep.
TryAfter(f, res) ==
    IF ~res.ok \/ res.err # NoErr
    THEN [f EXCEPT !.pc = "sleep", !.secs = 0, !.sleepLeft = PollMillis]
    ELSE IdleFrame

\* Acquire, from Eval's return on: the result, and under TryLockTimeout the
\* return of (true, nil) or the sleep.
AcquireReturn(h, got, net, path) ==
    LET res == AcquireResult(got.resp, got.err)
        f   == IF frame[h].inTry THEN TryAfter(frame[h], res) ELSE IdleFrame
    IN  /\ frame' = [frame EXCEPT ![h] = f]
        /\ ev' = [Event(h, "Acquire", res) EXCEPT
                    !.net = net, !.path = path, !.got = got, !.prev = hist[h],
                    !.wrap = IF ~frame[h].inTry THEN "none"
                             ELSE IF f.pc = "idle" THEN "true" ELSE "sleep",
                    !.at = frame[h].elapsed]

\* Acquire, from the script running in the store to the return.
AcquireEval(h, net) ==
    /\ frame[h].pc = "eval"
    /\ LET out == RoundTrip(lockCommand(kv, id[h], LeaseMillis(frame[h].secs)), kv, net)
       IN  /\ kv' = out.kv
           /\ AcquireReturn(h, EvalResult(out.reply, net), net, ScriptPath(kv, id[h], net))
           /\ IF out.reply.type = "string"
              THEN /\ hist' = HistAfterSet(h, ev'.ok)
                   /\ grant' = GrantAfterSet(h, frame[h].secs)
              ELSE UNCHANGED <<hist, grant>>
    /\ UNCHANGED <<id, seconds>>

\* Release: one script, one round trip.
Release(h, net) ==
    /\ frame[h].pc = "idle"
    /\ LET out == RoundTrip(delCommand(kv, id[h]), kv, net)
           got == EvalResult(out.reply, net)
           res == ReleaseResult(got.resp, got.err)
       IN  /\ kv' = out.kv
           /\ ev' = [Event(h, "Release", res) EXCEPT
                       !.net = net, !.path = ScriptPath(kv, id[h], net), !.got = got,
                       !.prev = hist[h]]
           /\ IF out.reply = IntReply(1)
              THEN /\ hist' = HistAfterDel(h)
                   /\ grant' = NoGrant
              ELSE UNCHANGED <<hist, grant>>
    /\ UNCHANGED <<id, seconds, frame>>

\* SetExpire, from any goroutine, at any time.
SetExpire(h, n) ==
    /\ seconds' = [seconds EXCEPT ![h] = ToUint32(n)]
    /\ ev' = NoEvent
    /\ UNCHANGED <<id, kv, frame, hist, grant>>

\* A loop that tries once more at the deadline itself.
TryBelowDeadline_Inclusive(f) == f.elapsed <= f.timeout

\* A loop that allows itself one more poll interval.
TryBelowDeadline_PlusPoll(f) == f.elapsed < f.timeout + PollMillis

\* elapseTime < timeOutSeconds
TryBelowDeadline(f) == f.elapsed < f.timeout

\* The top of TryLockTimeout's loop: below the deadline Acquire is called,
\* else the loop is left and the timeout error returned.
TryCheck(h, f) ==
    IF TryBelowDeadline(f)
    THEN /\ frame' = [frame EXCEPT ![h] = AcquireLoad(h, f)]
         /\ ev' = NoEvent
    ELSE /\ frame' = [frame EXCEPT ![h] = IdleFrame]
         /\ ev' = [Event(h, "TryLockTimeout", [ok |-> FALSE, err |-> TimeoutErr(f.timeout)])
                     EXCEPT !.at = f.elapsed]

\* TryLockTimeout is called: startTime := time.Now(), and the loop is entered.
TryLockTimeout(h, t) ==
    /\ frame[h].pc = "idle"
    /\ TryCheck(h, [IdleFrame EXCEPT !.inTry = TRUE, !.timeout = t])
    /\ UNCHANGED <<id, seconds, kv, hist, grant>>

\* time.Sleep is over: back to the top of the loop.
TryWake(h) ==
    /\ frame[h].pc = "sleep"
    /\ frame[h].sleepLeft = 0
    /\ TryCheck(h, frame[h])
    /\ UNCHANGED <<id, seconds, kv, hist, grant>>

\* Time passes for the caller of a handle.
Elapse(f, d) ==
    IF f.inTry
    THEN [f EXCEPT !.elapsed = Min(f.elapsed + d, MaxElapsed),
                   !.sleepLeft = Max(f.sleepLeft - d, 0)]
    ELSE f

\* d milliseconds pass, for the store and for every caller.
Tick(d) ==
    /\ kv' = Expire(kv, d)
    /\ frame' = [h \in Handles |-> Elapse(frame[h], d)]
    /\ ev' = NoEvent
    /\ hist' = IF kv.val # Absent /\ kv'.val = Absent THEN HistAfterExpiry ELSE hist
    /\ grant' = GrantAfterTick(kv', d)
    /\ UNCHANGED <<id, seconds>>

Next ==
    \/ \E h \in Handles : AcquireCall(h) /\ UNCHANGED scen
    \/ \E h \in Handles, net \in NetOutcomes : AcquireEval(h, net) /\ UNCHANGED scen
    \/ \E h \in Handles, net \in NetOutcomes : Release(h, net) /\ UNCHANGED scen
    \/ \E h \in Handles, n \in SecondsInputs : SetExpire(h, n) /\ UNCHANGED scen
    \/ \E h \in Handles, t \in TimeoutInputs : TryLockTimeout(h, t) /\ UNCHANGED scen
    \/ \E h \in Handles : TryWake(h) /\ UNCHANGED scen
    \/ \E d \in TickSteps : Tick(d) /\ UNCHANGED scen

Spec == Init /\ [][Next]_vars

\* ----------------------------------------------------------- a stubbed store
\* Acquire against a client that hands back any (resp, err): the shapes the
\* lock's own script never produces are reached here.

StubReplies == {NilReply, StatusReply("OK"), StatusReply("QUEUED"), IntReply(1)}

StubErrs == {NoErr, RedisNilErr, CommErr}

StubEval(h, resp, err) ==
    /\ frame[h].pc = "eval"
    /\ AcquireReturn(h, [resp |-> resp, err |-> err], "stub", "none")
    /\ UNCHANGED <<id, seconds, kv, hist, grant>>

NextStub ==
    \/ \E h \in Handles : AcquireCall(h) /\ UNCHANGED scen
    \/ \E h \in Handles, resp \in StubReplies, err \in StubErrs :
            StubEval(h, resp, err) /\ UNCHANGED scen
    \/ \E h \in Handles, n \in SecondsInputs : SetExpire(h, n) /\ UNCHANGED scen
    \/ \E h \in Handles, t \in TimeoutInputs : TryLockTimeout(h, t) /\ UNCHANGED scen
    \/ \E h \in Handles : TryWake(h) /\ UNCHANGED scen
    \/ \E d \in TickSteps : Tick(d) /\ UNCHANGED scen

SpecStub == Init /\ [][NextStub]_vars

\* ------------------------------------------------------ the two-handle scenario
\* The calls of the scenario, made one after the other by a driver: handle a
\* plays H1, the other handle H2.  No round trip fails and no lease runs
\* out; time may pass and leases may be reconfigured in between.

OtherHandle(a) == CHOOSE b \in Handles : b # a

ScenarioCalls(a) ==
    << [h |-> a, op |-> "Acquire"], [h |-> OtherHandle(a), op |-> "Acquire"],
       [h |-> a, op |-> "Release"], [h |-> OtherHandle(a), op |-> "Acquire"],
       [h |-> a, op |-> "Release"] >>

ScenarioNextCall == ScenarioCalls(scen.a)[Len(scen.results) + 1]

ScenarioStart(a) ==
    /\ scen.a = "none"
    /\ scen' = [scen EXCEPT !.a = a]
    /\ UNCHANGED <<id, seconds, kv, frame, ev, hist, grant>>

ScenarioAcquireCall ==
    /\ scen.a # "none" /\ ~scen.busy /\ Len(scen.results) < 5
    /\ ScenarioNextCall.op = "Acquire"
    /\ AcquireCall(ScenarioNextCall.h)
    /\ scen' = [scen EXCEPT !.busy = TRUE]

ScenarioAcquireReturn ==
    /\ scen.busy
    /\ AcquireEval(ScenarioNextCall.h, "ok")
    /\ scen' = [scen EXCEPT !.busy = FALSE, !.results = Append(@, <<ev'.ok, ev'.err>>)]

ScenarioRelease ==
    /\ scen.a # "none" /\ ~scen.busy /\ Len(scen.results) < 5
    /\ ScenarioNextCall.op = "Release"
    /\ Release(ScenarioNextCall.h, "ok")
    /\ scen' = [scen EXCEPT !.results = Append(@, <<ev'.ok, ev'.err>>)]

ScenarioTick(d) ==
    /\ kv.val # Absent => kv.pttl > d
    /\ Tick(d)
    /\ UNCHANGED scen

NextScenario ==
    \/ \E a \in Handles : ScenarioStart(a)
    \/ ScenarioAcquireCall
    \/ ScenarioAcquireReturn
    \/ ScenarioRelease
    \/ \E d \in TickSteps : ScenarioTick(d)
    \/ \E h \in Handles, n \in SecondsInputs : SetExpire(h, n) /\ UNCHANGED scen

SpecScenario == Init /\ [][NextScenario]_vars

\* ------------------------------------------------- the retry wrapper, watched
\* TryLockTimeout at the scale of its poll interval, with store round trips
\* that take no time and sleeps that last exactly 70 ms: time advances by
\* one sleep at a time, while the running call is in its sleep, and the
\* timeouts lie around the poll interval.  One call runs at a time, at most
\* MaxCalls in all; the other handle calls Acquire and Release as it likes,
\* and every lease has the 3 seconds New() gave it.
\* Here scen is a summary of the current (or last) call: its handle h, the
\* number n of its Acquire attempts, and what these were like.

\* The timeouts TryLockTimeout is called with here, in milliseconds.
PollTimeouts == {-100, 0, 100, 140}

\* claimed: an attempt's script stored the token at a key that did not hold
\* it; allComm: every attempt failed with a communication error; allRefused:
\* every attempt's script met a live key holding another token.
NewWatch(h) ==
    [h |-> h, n |-> 0, claimed |-> FALSE, allComm |-> TRUE, allRefused |-> TRUE, calls |-> 0]

NoWatch == NewWatch("none")

InitPoll ==
    /\ id = TokenOf
    /\ seconds = [h \in Handles |-> DefaultSeconds]
    /\ kv = FreeKey
    /\ frame = [h \in Handles |-> IdleFrame]
    /\ ev = NoEvent
    /\ hist = [h \in Handles |-> "never"]
    /\ grant = NoGrant
    /\ scen = NoWatch

PollCall(h, t) ==
    /\ scen.calls < MaxCalls
    /\ \A g \in Handles : ~frame[g].inTry
    /\ TryLockTimeout(h, t)
    /\ scen' = [NewWatch(h) EXCEPT !.calls = scen.calls + 1]

PollAttempt(h, net) ==
    /\ frame[h].inTry
    /\ AcquireEval(h, net)
    /\ scen' = [scen EXCEPT
                  !.n = @ + 1,
                  !.claimed = @ \/ (net # "reqLost" /\ kv.val # id[h] /\ kv'.val = id[h]),
                  !.allComm = @ /\ ev'.err = CommErr,
                  !.allRefused = @ /\ net = "ok" /\ kv.val # Absent /\ kv.val # id[h]]

PollWake(h) ==
    /\ TryWake(h)
    /\ UNCHANGED scen

\* Acquire called directly, not by TryLockTimeout.
PlainAcquire(h, net) ==
    /\ ~frame[h].inTry
    /\ AcquireEval(h, net)
    /\ UNCHANGED scen

\* A caller in a sleep that has time left.
Sleeping(f) == f.pc = "sleep" /\ f.sleepLeft > 0

PollTick(d) ==
    /\ \E h \in Handles : Sleeping(frame[h])
    /\ Tick(d)
    /\ UNCHANGED scen

NextPoll ==
    \/ \E h \in Handles, t \in PollTimeouts : PollCall(h, t)
    \/ \E h \in Handles, net \in NetOutcomes : PollAttempt(h, net)
    \/ \E h \in Handles : PollWake(h)
    \/ \E h \in Handles : AcquireCall(h) /\ UNCHANGED scen
    \/ \E h \in Handles, net \in NetOutcomes : PlainAcquire(h, net)
    \/ \E h \in Handles, net \in NetOutcomes : Release(h, net) /\ UNCHANGED scen
    \/ PollTick(PollMillis)

SpecPoll == InitPoll /\ [][NextPoll]_vars

\* The same, with the scheduling the program runs under: a goroutine that can
\* take its next step takes it (Eval returns, the sleep ends), and time
\* passes for a caller in its sleep.
SpecPollFair ==
    /\ SpecPoll
    /\ \A h \in Handles : WF_vars(PollWake(h))
    /\ \A h \in Handles : WF_vars(\E net \in NetOutcomes : PollAttempt(h, net))
    /\ WF_vars(PollTick(PollMillis))

\* ------------------------------------------------------------ a race for the key
\* After any run of Acquire, Release, SetExpire and time that leaves the key
\* absent and no call running, the handles of a set (racers) each call
\* Acquire once; no round trip fails and the winner's lease does not run
\* out before the last of them has returned.  Here scen holds the racers,
\* those that have called, and the returns in the order the store ran the
\* scripts.

NoRace == [racers |-> {}, called |-> {}, order |-> <<>>]

InitRace ==
    /\ id = TokenOf
    /\ seconds = [h \in Handles |-> DefaultSeconds]
    /\ kv = FreeKey
    /\ frame = [h \in Handles |-> IdleFrame]
    /\ ev = NoEvent
    /\ hist = [h \in Handles |-> "never"]
    /\ grant = NoGrant
    /\ scen = NoRace

\* Before the race: the program's calls, as they come.
BeforeRace(A) ==
    /\ scen.racers = {}
    /\ A
    /\ UNCHANGED scen

RaceStart(S) ==
    /\ scen.racers = {}
    /\ S # {}
    /\ kv.val = Absent
    /\ \A h \in Handles : frame[h].pc = "idle"
    /\ scen' = [scen EXCEPT !.racers = S]
    /\ UNCHANGED <<id, seconds, kv, frame, ev, hist, grant>>

RaceCall(h) ==
    /\ h \in scen.racers \ scen.called
    /\ AcquireCall(h)
    /\ scen' = [scen EXCEPT !.called = @ \cup {h}]

RaceEval(h) ==
    /\ h \in scen.called
    /\ AcquireEval(h, "ok")
    /\ scen' = [scen EXCEPT !.order = Append(@, [h |-> h, ok |-> ev'.ok, err |-> ev'.err])]

RaceTick(d) ==
    /\ scen.racers # {}
    /\ Len(scen.order) < Cardinality(scen.racers)
    /\ kv.val # Absent => kv.pttl > d
    /\ Tick(d)
    /\ UNCHANGED scen

NextRace ==
    \/ \E h \in Handles : BeforeRace(AcquireCall(h))
    \/ \E h \in Handles, net \in NetOutcomes : BeforeRace(AcquireEval(h, net))
    \/ \E h \in Handles, net \in NetOutcomes : BeforeRace(Release(h, net))
    \/ \E h \in Handles, n \in SecondsInputs : SetExpire(h, n) /\ UNCHANGED scen
    \/ \E d \in TickSteps : BeforeRace(Tick(d))
    \/ \E S \in SUBSET Handles : RaceStart(S)
    \/ \E h \in Handles : RaceCall(h)
    \/ \E h \in Handles : RaceEval(h)
    \/ \E d \in TickSteps : RaceTick(d)

SpecRace == InitRace /\ [][NextRace]_vars

\* ------------------------------------------------------------------- claims

\* The handles whose token is the key's value, and those that have been told
\* "acquired" since the key last did not exist.
Owners == {h \in Handles : kv.val = id[h]}

Granted == {h \in Handles : hist[h] = "granted"}

\* The lease a handle is promised: leaseSeconds*1000 + 500 ms.
PromisedMillis(secs) == secs * 1000 + 500

\* The step is the return of op by handle h.
Returned(h, op) == ev'.op = op /\ ev'.h = h

\* C1: mutual exclusion.  At any moment at most one handle owns the live
\* key, and between two moments at which the key does not exist at most one
\* handle has received acquired == true, which is then the owner.
C1_MutualExclusion ==
    /\ Cardinality(Owners) <= 1
    /\ Cardinality(Granted) <= 1
    /\ Granted \subseteq Owners
    /\ kv.val = Absent => Granted = {}

\* Two handles raced: one holds the grant, the other's Acquire reached the
\* store and came back (false, nil).
C1_Witness ==
    /\ ev.op = "Acquire" /\ ~ev.ok /\ ev.err = NoErr /\ ev.net = "ok"
    /\ Granted # {} /\ ev.h \notin Granted

C2_WitnessRefused ==
    /\ ev.op = "Release" /\ ~ev.ok /\ ev.err = NoErr /\ ev.net = "ok"
    /\ kv.val # Absent /\ ev.h \notin Owners

\* C3 as stated: after H1's lease expired and H2 acquired, H1's Release
\* returns (false, nil) and H2's key is untouched.
C3_StaleRelease_Stated ==
    [][\A h \in Handles : (Returned(h, "Release") /\ hist[h] = "expired"
                            /\ \E g \in Handles \ {h} : kv.val = id[g] /\ hist[g] \in Holding) =>
        /\ ~ev'.ok /\ ev'.err = NoErr
        /\ kv' = kv]_vars

\* C3 as amended: after H1's lease expired and H2 acquired, H1's Release
\* returns false, with a nil error when the round trip succeeded and with
\* the communication error when it did not, and in every case H2 is still
\* the owner, with the same value and the same time-to-live.
C3_StaleRelease ==
    [][\A h \in Handles : (Returned(h, "Release") /\ hist[h] = "expired"
                            /\ \E g \in Handles \ {h} : kv.val = id[g] /\ hist[g] \in Holding) =>
        /\ ~ev'.ok
        /\ ev'.err = (IF ev'.net = "ok" THEN NoErr ELSE CommErr)
        /\ kv' = kv /\ hist' = hist /\ grant' = grant]_vars

C3_Witness ==
    /\ ev.op = "Release" /\ ~ev.ok /\ ev.err = NoErr /\ ev.net = "ok"
    /\ ev.prev = "expired" /\ hist[ev.h] = "expired"
    /\ \E g \in Handles \ {ev.h} : kv.val = id[g] /\ hist[g] = "granted"

\* Only the owner's Acquire or Release changes a key that exists, apart from
\* the passing of time.
OwnerOnly ==
    (kv.val # Absent /\ kv' # kv) =>
        \/ \E d \in TickSteps : Tick(d)
        \/ ev'.op \in {"Acquire", "Release"} /\ ev'.h \in Owners

\* C4 as stated: an Acquire by a handle whose token differs from the value
\* of the live key returns (false, nil) and leaves value and time-to-live
\* alone; only the owner extends or deletes a live key.
C4_Contention_Stated ==
    [][/\ \A h \in Handles : (Returned(h, "Acquire") /\ kv.val # Absent /\ kv.val # id[h]) =>
            /\ ~ev'.ok /\ ev'.err = NoErr
            /\ kv' = kv
       /\ OwnerOnly]_vars

\* C4 as amended: an Acquire whose script meets a live key holding another
\* value returns false, with a nil error when the round trip succeeded and
\* with the communication error when it did not, and leaves value and
\* time-to-live alone; only the owner extends or deletes a live key.
C4_Contention ==
    [][/\ \A h \in Handles : (Returned(h, "Acquire") /\ kv.val # Absent /\ kv.val # id[h]) =>
            /\ ~ev'.ok
            /\ ev'.err = (IF ev'.net = "ok" THEN NoErr ELSE CommErr)
            /\ kv' = kv
       /\ OwnerOnly]_vars

C4_Witness ==
    /\ ev.op = "Acquire" /\ ~ev.ok /\ ev.err = NoErr /\ ev.net = "ok" /\ ev.path = "else"
    /\ kv.val # Absent /\ ev.h \notin Owners

\* While h owns the key, no call of another handle changes it, and time
\* ends the lease no earlier than PromisedMillis after it was last set.
StaysOwner ==
    /\ \A h \in Handles : (kv.val = id[h] /\ ev'.h \in Handles \ {h}) => kv' = kv
    /\ \A d \in TickSteps :
          (Tick(d) /\ kv.val # Absent /\ grant.age + d < PromisedMillis(grant.secs)) =>
              kv'.val = kv.val

\* C5 as stated: every Acquire of the owner that reaches the store while
\* its lease is live returns (true, nil), and the handle stays the owner.
C5_Extension_Stated ==
    [][/\ \A h \in Handles : (Returned(h, "Acquire") /\ ev'.net # "reqLost" /\ kv.val = id[h]) =>
            /\ ev'.ok /\ ev'.err = NoErr
            /\ kv'.val = id[h]
       /\ StaysOwner]_vars

\* C5 as amended: every Acquire of the owner that reaches the store while
\* its lease is live sets the full lease anew and keeps the handle the
\* owner; it returns (true, nil) when its reply arrives and (false, err)
\* when the reply is lost; the handle stays the owner throughout, whatever
\* other handles call.
C5_Extension ==
    [][/\ \A h \in Handles : (Returned(h, "Acquire") /\ ev'.net # "reqLost" /\ kv.val = id[h]) =>
            /\ ev'.net = "ok" => (ev'.ok /\ ev'.err = NoErr)
            /\ ev'.net = "replyLost" => (~ev'.ok /\ ev'.err = CommErr)
            /\ kv'.val = id[h] /\ kv'.pttl = PromisedMillis(frame[h].secs)
            /\ hist'[h] \in Holding
       /\ StaysOwner]_vars

\* The owner's Acquire came back true through the extension branch.
C5_Witness ==
    /\ ev.op = "Acquire" /\ ev.ok /\ ev.err = NoErr /\ ev.path = "then"
    /\ ev.h \in Owners /\ hist[ev.h] = "granted"

\* C6: expiry handover.  When PromisedMillis have passed since the key's
\* time-to-live was last set, the key is gone; and an Acquire that reaches
\* the store with no communication error when the key is gone, the former
\* owner's lease having run out with no Release, returns (true, nil) and
\* makes its handle the owner.
C6_Handover ==
    [][/\ \A d \in TickSteps :
            (Tick(d) /\ kv.val # Absent /\ grant.age + d >= PromisedMillis(grant.secs)) =>
                kv' = FreeKey
       /\ \A h \in Handles : (Returned(h, "Acquire") /\ ev'.net = "ok" /\ kv.val = Absent) =>
            /\ ev'.ok /\ ev'.err = NoErr
            /\ kv'.val = id[h] /\ kv'.pttl > 0
            /\ hist'[h] = "granted"]_vars

C6_Witness ==
    /\ ev.op = "Acquire" /\ ev.ok /\ ev.err = NoErr /\ ev.path = "else"
    /\ ev.h \in Owners
    /\ \E g \in Handles \ {ev.h} : hist[g] = "expired"

\* C7: round trip.  A Release that returns (true, nil) to the handle that
\* had acquired leaves the key absent; the key then stays absent until some
\* Acquire takes it; and the next Acquire of the same handle that meets the
\* absent key with no communication error returns (true, nil) and makes it
\* the owner again.  Holding in every reachable state, this holds after any
\* number of cycles.
C7_RoundTrip ==
    [][/\ \A h \in Handles :
            /\ (Returned(h, "Release") /\ ev'.ok /\ hist[h] = "granted") =>
                    (kv' = FreeKey /\ hist'[h] = "released")
            /\ (Returned(h, "Acquire") /\ ev'.net = "ok" /\ hist[h] = "released"
                    /\ kv.val = Absent) =>
                    (ev'.ok /\ ev'.err = NoErr /\ kv'.val = id[h] /\ hist'[h] = "granted")
       /\ (kv.val = Absent /\ kv'.val # Absent) =>
            (ev'.op = "Acquire" /\ ev'.path = "else" /\ kv'.val = id[ev'.h])]_vars

\* A handle acquired, released, and has acquired again.
C7_Witness ==
    /\ ev.op = "Acquire" /\ ev.ok /\ ev.err = NoErr /\ ev.path = "else"
    /\ ev.prev = "released" /\ hist[ev.h] = "granted" /\ ev.h \in Owners

\* C8: the two-handle scenario.  From a free key, with no lease running out
\* and no communication error, H1.Acquire, H2.Acquire, H1.Release,
\* H2.Acquire, H1.Release return (true, nil), (false, nil), (true, nil),
\* (true, nil), (false, nil), and H2 is the owner after the last call.
ScenarioExpected ==
    << <<TRUE, NoErr>>, <<FALSE, NoErr>>, <<TRUE, NoErr>>, <<TRUE, NoErr>>, <<FALSE, NoErr>> >>

C8_Scenario ==
    /\ Len(scen.results) <= 5
    /\ \A i \in 1..Len(scen.results) : scen.results[i] = ScenarioExpected[i]
    /\ Len(scen.results) = 5 =>
            /\ Owners = {OtherHandle(scen.a)}
            /\ hist[OtherHandle(scen.a)] = "granted"
            /\ kv.pttl > 0

C8_Witness ==
    /\ Len(scen.results) = 5
    /\ ev.op = "Release" /\ ev.h = scen.a /\ ~ev.ok

\* C9: Acquire's result.  (true, nil) exactly when the client hands back
\* the string "OK" with no error; (false, nil) for a nil reply (red.Nil, or
\* a nil resp) and for any other reply; (false, err) for a communication
\* failure; never true with an error.
C9_ResultMapping ==
    ev.op = "Acquire" =>
        /\ ev.ok <=> (ev.got.err = NoErr /\ ev.got.resp = StatusReply("OK"))
        /\ ev.got.err = RedisNilErr => (~ev.ok /\ ev.err = NoErr)
        /\ (ev.got.err = NoErr /\ ev.got.resp # StatusReply("OK")) => (~ev.ok /\ ev.err = NoErr)
        /\ ev.got.err = CommErr => (~ev.ok /\ ev.err = CommErr)
        /\ ev.ok => ev.err = NoErr

\* A reply of a shape Acquire does not know came back as (false, nil).
C9_Witness ==
    /\ ev.op = "Acquire" /\ ev.got = [resp |-> IntReply(1), err |-> NoErr]
    /\ ~ev.ok /\ ev.err = NoErr

\* C10: the retry wrapper.  An attempt that returns true makes
\* TryLockTimeout return (true, nil) at once, with no further attempt; any
\* other attempt is followed by a sleep of 70 ms, after which the loop
\* tries again if the time since the call is below the timeout and returns
\* (false, timeout error) carrying that timeout if not; it returns nothing
\* else.
C10_RetryWrapper ==
    [][\A h \in Handles :
        /\ (Returned(h, "Acquire") /\ frame[h].inTry) =>
              IF ev'.ok
              THEN ev'.err = NoErr /\ ev'.wrap = "true" /\ frame'[h] = IdleFrame
              ELSE /\ ev'.wrap = "sleep"
                   /\ frame'[h].pc = "sleep" /\ frame'[h].sleepLeft = 70
                   /\ frame'[h].inTry /\ frame'[h].timeout = frame[h].timeout
                   /\ frame'[h].elapsed = frame[h].elapsed
        /\ (frame[h].pc = "sleep" /\ frame'[h].sleepLeft < frame[h].sleepLeft) =>
              \E d \in TickSteps : Tick(d) /\ frame'[h].sleepLeft >= frame[h].sleepLeft - d
        /\ (frame[h].pc = "sleep" /\ frame'[h].pc # "sleep") =>
              /\ frame[h].sleepLeft = 0
              /\ IF frame[h].elapsed < frame[h].timeout
                 THEN frame'[h].pc = "eval" /\ frame'[h].inTry
                 ELSE Returned(h, "TryLockTimeout")
        /\ Returned(h, "TryLockTimeout") =>
              /\ ~ev'.ok /\ ev'.err.kind = "timeout" /\ ~(ev'.at < ev'.err.t)
              /\ frame[h].inTry => ev'.err.t = frame[h].timeout
              /\ frame'[h] = IdleFrame /\ kv' = kv
        /\ (frame[h].inTry /\ ~frame'[h].inTry) =>
              \/ Returned(h, "TryLockTimeout")
              \/ Returned(h, "Acquire") /\ ev'.ok /\ ev'.err = NoErr]_vars

\* TryLockTimeout returned (true, nil) on an attempt that followed a failed
\* attempt and a sleep; and it returned the timeout error after its deadline.
C10_Witness ==
    /\ ev.op = "Acquire" /\ ev.wrap = "true" /\ ev.ok /\ ev.at > 0
    /\ frame[ev.h] = IdleFrame

C10_WitnessTimeout ==
    /\ ev.op = "TryLockTimeout" /\ ev.err = TimeoutErr(1000) /\ ev.at >= 1000

\* The step ends a TryLockTimeout call of h: it was running, or is called
\* in this very step and returns at once.
TryEnds(h) ==
    /\ ~frame'[h].inTry
    /\ frame[h].inTry \/ Returned(h, "TryLockTimeout")

\* C11 as stated: when TryLockTimeout returns the timeout failure, no
\* attempt of that call has left the handle's token stored at the key, also
\* when attempts failed with communication errors.
C11_NoLeak_Stated ==
    [][\A h \in Handles : Returned(h, "TryLockTimeout") =>
            ~(scen'.h = h /\ scen'.claimed /\ kv'.val = id[h])]_vars

\* C12: store errors are masked.  An attempt of TryLockTimeout that fails
\* with a communication error is followed by the sleep, not by a return; a
\* call all of whose attempts failed so ends with (false, timeout error);
\* and whatever TryLockTimeout returns on failure carries the timeout
\* error, never Acquire's.
C12_ErrorsMasked ==
    [][\A h \in Handles :
        /\ (Returned(h, "Acquire") /\ frame[h].inTry /\ ev'.err = CommErr) =>
              frame'[h].inTry /\ frame'[h].pc = "sleep"
        /\ (TryEnds(h) /\ scen'.h = h /\ scen'.n > 0 /\ scen'.allComm) =>
              /\ Returned(h, "TryLockTimeout")
              /\ ~ev'.ok /\ ev'.err = TimeoutErr(frame[h].timeout)
        /\ TryEnds(h) =>
              IF ev'.ok THEN ev'.err = NoErr ELSE ev'.err.kind = "timeout"]_vars

\* A call made two attempts, both failed with a communication error, and it
\* returned the timeout error.
C12_Witness ==
    /\ ev.op = "TryLockTimeout" /\ ~ev.ok /\ ev.err = TimeoutErr(100)
    /\ scen.h = ev.h /\ scen.n = 2 /\ scen.allComm

\* C13: the timeout bound.  A TryLockTimeout call with a timeout of 100 ms,
\* every attempt of which meets the key held by another handle, ends with
\* the timeout failure, no earlier than 100 ms and no later than 170 ms
\* after it was called (round trips taking no time); and every call ends.
C13_TimeoutBound ==
    /\ [][\A h \in Handles :
            (TryEnds(h) /\ frame[h].timeout = 100 /\ scen'.h = h /\ scen'.allRefused) =>
                /\ Returned(h, "TryLockTimeout")
                /\ ~ev'.ok /\ ev'.err = TimeoutErr(100)
                /\ ev'.at >= 100 /\ ev'.at <= 100 + 70]_vars
    /\ \A h \in Handles : frame[h].inTry ~> ~frame[h].inTry

\* The call was refused twice by the other handle's live key and returned
\* the timeout error 140 ms after it was called.
C13_Witness ==
    /\ ev.op = "TryLockTimeout" /\ ev.err = TimeoutErr(100) /\ ev.at = 140
    /\ scen.h = ev.h /\ scen.n = 2 /\ scen.allRefused
    /\ kv.val # Absent /\ ev.h \notin Owners

\* C17: the deadline is checked before every attempt.  TryLockTimeout
\* starts an attempt only when the time since the call is strictly below
\* the timeout; a call with a timeout of 0 or less makes no attempt, leaves
\* the store as it is and returns the timeout failure at once, whatever the
\* key holds.
C17_DeadlineFirst ==
    [][\A h \in Handles :
        /\ (frame'[h].inTry /\ frame'[h].pc = "eval" /\ frame[h].pc # "eval") =>
              frame'[h].elapsed < frame'[h].timeout
        /\ (~frame[h].inTry /\ frame'[h].inTry) => frame'[h].timeout > 0
        /\ (Returned(h, "TryLockTimeout") /\ ev'.err.t <= 0) =>
              /\ frame[h] = IdleFrame /\ frame'[h] = IdleFrame
              /\ scen'.h = h /\ scen'.n = 0
              /\ ~ev'.ok /\ ev'.err.kind = "timeout"
              /\ kv' = kv /\ hist' = hist /\ grant' = grant
        /\ (Returned(h, "TryLockTimeout") /\ ev'.err.t > 0) => ev'.at >= ev'.err.t]_vars

\* A call with timeout 0 met a free key, made no attempt and returned the
\* timeout failure; and a call with timeout 140 ms gave up at 140 ms.
C17_Witness ==
    /\ ev.op = "TryLockTimeout" /\ ev.err = TimeoutErr(0) /\ ~ev.ok
    /\ kv = FreeKey /\ scen.h = ev.h /\ scen.n = 0

C17_WitnessBoundary ==
    /\ ev.op = "TryLockTimeout" /\ ev.err = TimeoutErr(140) /\ ev.at = 140

\* C14: lease configuration.  SetExpire changes the handle's seconds and
\* nothing else: not the store, not the running lease, not a call under
\* way.  Acquire reads seconds once, when it is called, the value last
\* written; what it has read stays with it whatever SetExpire does
\* meanwhile; and when it succeeds the key's time-to-live is set from it.
C14_LeaseConfiguration ==
    [][/\ seconds' # seconds =>
            /\ \E h \in Handles, n \in SecondsInputs : seconds' = [seconds EXCEPT ![h] = n]
            /\ kv' = kv /\ frame' = frame /\ id' = id /\ hist' = hist /\ grant' = grant
       /\ \A h \in Handles :
            /\ (frame'[h].pc = "eval" /\ frame[h].pc # "eval") => frame'[h].secs = seconds[h]
            /\ (frame'[h].pc = "eval" /\ frame[h].pc = "eval") => frame'[h].secs = frame[h].secs
            /\ (Returned(h, "Acquire") /\ ev'.ok) =>
                    /\ frame[h].secs \in SecondsInputs
                    /\ kv'.pttl = frame[h].secs * millisPerSecond + tolerance]_vars

\* An Acquire that had read 0 seconds succeeded and set a lease of 500 ms
\* although SetExpire had written 3 before its script ran.
C14_Witness ==
    /\ ev.op = "Acquire" /\ ev.ok /\ kv.val = id[ev.h]
    /\ kv.pttl = PromisedMillis(0) /\ seconds[ev.h] = DefaultSeconds

\* C15: the full lease on every success.  Right after an Acquire that
\* returns (true, nil), on the first-claim path as on the extension path,
\* the key holds the handle's token and its remaining time-to-live is
\* exactly PromisedMillis of the seconds that call had read.
C15_FullLease ==
    [][\A h \in Handles : (Returned(h, "Acquire") /\ ev'.ok /\ ev'.err = NoErr) =>
            /\ ev'.path = (IF kv.val = id[h] THEN "then" ELSE "else")
            /\ ev'.path = "else" => kv.val = Absent
            /\ kv'.val = id[h]
            /\ kv'.pttl = PromisedMillis(frame[h].secs)
            /\ grant' = [h |-> h, secs |-> frame[h].secs, age |-> 0]]_vars

\* The owner's Acquire, through the extension path, set the full lease of
\* the 3 seconds it had read.
C15_Witness ==
    /\ ev.op = "Acquire" /\ ev.ok /\ ev.err = NoErr /\ ev.path = "then"
    /\ kv.val = id[ev.h] /\ kv.pttl = PromisedMillis(DefaultSeconds)
    /\ grant.age = 0 /\ ev.prev = "granted"

\* C16: one winner.  Of the handles racing for a free key, the one whose
\* script the store runs first returns (true, nil) and owns the key, and
\* every other returns (false, nil).
C16_OneWinner ==
    /\ Len(scen.order) <= Cardinality(scen.racers)
    /\ \A i \in 1..Len(scen.order) :
          /\ scen.order[i].h \in scen.racers
          /\ scen.order[i].ok <=> (i = 1)
          /\ scen.order[i].err = NoErr
    /\ Len(scen.order) >= 1 =>
          /\ Owners = {scen.order[1].h}
          /\ Cardinality({i \in 1..Len(scen.order) : scen.order[i].ok}) = 1

\* Both handles raced for a key that had expired; both have returned.
C16_Witness ==
    /\ scen.racers = Handles /\ Len(scen.order) = 2
    /\ scen.order[1].ok /\ ~scen.order[2].ok
    /\ hist[scen.order[2].h] = "expired"

\* C18 as stated: a Release by a handle that is not the owner returns
\* (false, nil) and changes nothing in the store.
C18_Harmless_Stated ==
    [][\A h \in Handles : (Returned(h, "Release") /\ kv.val # id[h]) =>
            /\ ~ev'.ok /\ ev'.err = NoErr
            /\ kv' = kv]_vars

\* C18 as amended: a Release by a handle that is not the owner (it never
\* acquired, it has released, its lease ran out) returns false, with a nil
\* error when the round trip succeeded and with the communication error
\* when it did not, and changes nothing in the store; so a second Release
\* right after a successful one returns false and leaves the key absent.
C18_Harmless ==
    [][\A h \in Handles :
        /\ (Returned(h, "Release") /\ kv.val # id[h]) =>
              /\ ~ev'.ok
              /\ ev'.err = (IF ev'.net = "ok" THEN NoErr ELSE CommErr)
              /\ kv' = kv /\ hist' = hist /\ grant' = grant
        /\ (Returned(h, "Release") /\ ev.op = "Release" /\ ev.h = h /\ ev.ok) =>
              /\ kv = FreeKey /\ kv' = FreeKey
              /\ ~ev'.ok]_vars

\* A handle that had released called Release again, with no communication
\* error: (false, nil), the key still absent.
C18_Witness ==
    /\ ev.op = "Release" /\ ~ev.ok /\ ev.err = NoErr /\ ev.net = "ok"
    /\ ev.prev = "released" /\ hist[ev.h] = "released" /\ kv = FreeKey

\* C19 as stated: after a lost reply the handle is the owner, and its next
\* Acquire that reaches the store while the lease is live returns
\* (true, nil) through the extension path.
C19_Recovery_Stated ==
    [][\A h \in Handles :
        /\ hist'[h] = "stored" => kv'.val = id[h]
        /\ (Returned(h, "Acquire") /\ ev'.net # "reqLost" /\ hist[h] = "stored") =>
              /\ ev'.path = "then"
              /\ ev'.ok /\ ev'.err = NoErr]_vars

\* C19 as amended: an Acquire whose script stored the token and whose reply
\* was lost returns (false, err) and leaves the handle the owner; its next
\* Acquire that reaches the store while the lease is live goes through the
\* extension path, sets the full lease, and returns (true, nil) when its
\* reply arrives, (false, err) when that is lost too; and no Acquire whose
\* reply arrives is refused by a live key that holds its own token.
C19_Recovery ==
    [][\A h \in Handles :
        /\ hist'[h] = "stored" => kv'.val = id[h]
        /\ (Returned(h, "Acquire") /\ ev'.net = "replyLost" /\ kv'.val = id[h]) =>
              /\ ~ev'.ok /\ ev'.err = CommErr
              /\ hist'[h] \in Holding
        /\ (Returned(h, "Acquire") /\ ev'.net # "reqLost" /\ hist[h] = "stored") =>
              /\ ev'.path = "then"
              /\ kv'.val = id[h] /\ kv'.pttl = PromisedMillis(frame[h].secs)
              /\ ev'.net = "ok" => (ev'.ok /\ ev'.err = NoErr /\ hist'[h] = "granted")
              /\ ev'.net = "replyLost" => (~ev'.ok /\ ev'.err = CommErr /\ hist'[h] = "stored")
        /\ (Returned(h, "Acquire") /\ ev'.net = "ok" /\ kv.val = id[h]) =>
              ev'.ok /\ ev'.err = NoErr]_vars

\* A handle whose token had been stored with the reply lost called Acquire
\* again and was told (true, nil) through the extension path.
C19_Witness ==
    /\ ev.op = "Acquire" /\ ev.ok /\ ev.err = NoErr /\ ev.path = "then"
    /\ ev.prev = "stored" /\ hist[ev.h] = "granted" /\ kv.val = id[ev.h]

====
